---- MODULE Spec2Model ----
(***************************************************************************)
(* Model of the DreamBox mesh exporter, scripts/Blender/dbmesh_export/     *)
(* dbexport.py: write_dbmesh (the mesh file, the skeleton chunk, the NLA   *)
(* track loop, the mesh chunks and the per-vertex skin-weight scan) and    *)
(* write_dbanim (resampling, greedy keyframe reduction, track chunks).     *)
(*                                                                         *)
(* Numbers.  Python floats are modelled exactly: a time or a weight is a   *)
(* fraction <<num, den>> compared by cross-multiplication, a vector is a   *)
(* triple of integers compared through its squared length, a rotation is   *)
(* an angle in whole degrees about one fixed axis.  An exception leaves    *)
(* the export at pc = "error" with the exception's name in result; file    *)
(* operations are taken to succeed.                                        *)
(***************************************************************************)
EXTENDS Integers, Sequences, FiniteSets, TLC

\* ------------------------------------------------------------------ bounds
\* Strip end frames range up to MaxEnd.
MaxEnd == 3
\* resample_framerate ranges over 1..MaxRate.
MaxRate == 3
\* scene.render.fps ranges over 1..MaxFps.
MaxFps == 2
\* A vertex carries at most MaxItems deform entries, over groups 1..MaxItems.
MaxItems == 3

\* ------------------------------------------------------- program constants
\* The skeleton sanity check: len(armature.data.bones) > 256.
MaxBones == 256
\* Bytes of one bone record announced in the SKEL size field.
BoneBytes == 130

\* struct format characters and their sizes (native mode, no padding arises
\* in the formats used).
FmtF == 4
FmtE == 2
FmtB == 1
FmtH == 2
Fmt32s == 32

\* ------------------------------------------------------------ input domains
\* Error thresholds (position, rotation, scale), in model length units/degrees.
ErrSet == {0, 1}
\* The pose sampler is periodic in the frame: one pose id per frame phase.
FramePhases == {0, 1, 2}
PoseIds == {0, 1, 2}
Samplers == [FramePhases -> PoseIds]
\* Weights of deform entries, as fractions.
WeightSet == {<<0, 1>>, <<1, 5>>, <<3, 10>>, <<1, 2>>}
Groups == 1..MaxItems
\* The first material slot: absent, or a material with a node tree (with or
\* without an image texture node) or without one.
MaterialKinds == {"none", "tree_tex", "tree", "notree"}

\* ------------------------------------------------------------------ numbers
\* Fractions <<num, den>> with den > 0.
RLess(a, b) == a[1] * b[2] < b[1] * a[2]
REq(a, b) == a[1] * b[2] = b[1] * a[2]
RAdd(a, b) == <<a[1] * b[2] + b[1] * a[2], a[2] * b[2]>>
RDiv(a, b) == <<a[1] * b[2], a[2] * b[1]>>
\* int(x * 255) for a fraction x >= 0.
PackUnorm8(x) == (x[1] * 255) \div x[2]

\* (a - b).length squared, for integer vectors.
Dist2(a, b) ==
    (a[1] - b[1]) * (a[1] - b[1]) + (a[2] - b[2]) * (a[2] - b[2])
        + (a[3] - b[3]) * (a[3] - b[3])

\* degrees(a.rotation_difference(b).angle) for rotations about one axis:
\* the shortest arc between the two angles.
RotationDifference(a, b) ==
    LET d == (IF a >= b THEN a - b ELSE b - a) % 360
    IN  IF d <= 180 THEN d ELSE 360 - d

Min2(a, b) == IF a < b THEN a ELSE b
Max2(a, b) == IF a > b THEN a ELSE b

\* ----------------------------------------------------------------- poses
\* get_bone_pose: the (loc, rot, scale) of a pose bone at the scene's
\* current frame, while the track is solo.  The host evaluates it; here the
\* track's sampler gives a pose id per frame phase, shifted per bone and
\* per channel.
PoseId(track, bone, frame, channel) ==
    track.sampler[(frame + bone + channel) % Cardinality(FramePhases)]

get_bone_pose(track, bone, frame) ==
    [loc   |-> <<PoseId(track, bone, frame, 0), 0, 0>>,
     rot   |-> PoseId(track, bone, frame, 1),
     scale |-> <<1, 1 + PoseId(track, bone, frame, 2), 1>>]

\* ---------------------------------------------------- keyframe reduction
\* append_track_vec3's test: the track is empty or the last key's value is
\* further than err from the value.
ShouldAppendVec3_AtLeast(track, value, err) ==
    Len(track) = 0 \/ Dist2(track[Len(track)].value, value) >= err * err

ShouldAppendVec3(track, value, err) ==
    Len(track) = 0 \/ Dist2(track[Len(track)].value, value) > err * err

append_track_vec3(track, time, value, err) ==
    IF ShouldAppendVec3(track, value, err)
    THEN Append(track, [time |-> time, value |-> value])
    ELSE track

ShouldAppendQuat_Slack(track, value, err) ==
    Len(track) = 0 \/ RotationDifference(track[Len(track)].value, value) > err + 1

ShouldAppendQuat(track, value, err) ==
    Len(track) = 0 \/ RotationDifference(track[Len(track)].value, value) > err

append_track_quat(track, time, value, err) ==
    IF ShouldAppendQuat(track, value, err)
    THEN Append(track, [time |-> time, value |-> value])
    ELSE track

\* ------------------------------------------------------------ resampling
\* The frame range of a track: begin and end start at 0 and widen over the
\* strips.
RECURSIVE FrameRange(_, _, _)
FrameRange(strips, begin, end) ==
    IF strips = <<>> THEN <<begin, end>>
    ELSE FrameRange(Tail(strips),
                    Min2(begin, Head(strips).frame_start),
                    Max2(end, Head(strips).frame_end))

\* int(duration / framestep), with framestep = fps / float(resample), and
\* the replacement of 0 by 1.
TotalFrames_PerRate(duration, fps, resample) ==
    LET n == duration \div resample
    IN  IF n = 0 THEN 1 ELSE n

TotalFrames(duration, fps, resample) ==
    LET n == (duration * resample) \div fps
    IN  IF n = 0 THEN 1 ELSE n

\* begin + int(i * framestep)
SampleFrameOf(begin, i, fps, resample) == begin + (i * fps) \div resample

\* float(frame) / fps
TimeOf(frame, fps) == <<frame, fps>>

\* ------------------------------------------------------------ skin weights
\* The inner loop over the two slots: replace the first slot whose weight is
\* lower than the candidate's, then stop.
FirstFit_SlotOneFirst(bw, bi, weight, bone_idx) ==
    IF RLess(bw[2], weight) THEN [bweight |-> <<bw[1], weight>>, bidx |-> <<bi[1], bone_idx>>]
    ELSE IF RLess(bw[1], weight) THEN [bweight |-> <<weight, bw[2]>>, bidx |-> <<bone_idx, bi[2]>>]
    ELSE [bweight |-> bw, bidx |-> bi]

FirstFit(bw, bi, weight, bone_idx) ==
    IF RLess(bw[1], weight) THEN [bweight |-> <<weight, bw[2]>>, bidx |-> <<bone_idx, bi[2]>>]
    ELSE IF RLess(bw[2], weight) THEN [bweight |-> <<bw[1], weight>>, bidx |-> <<bi[1], bone_idx>>]
    ELSE [bweight |-> bw, bidx |-> bi]

\* The renormalisation of the two retained weights.
Renormalize(bw) ==
    IF bw[1][1] > 0 /\ bw[2][1] > 0
    THEN LET bweight_sum == RAdd(bw[1], bw[2])
         IN  <<RDiv(bw[1], bweight_sum), RDiv(bw[2], bweight_sum)>>
    ELSE bw

\* ------------------------------------------------------------- byte counts
\* The size announced after the MESH tag.
MeshSizeField(nfaces) == 32 + 40 + 42 + (nfaces * 3 * 20)
\* '3f' + '4f' + '3f'
TransformBytes == 3 * FmtF + 4 * FmtF + 3 * FmtF
\* The bytes the material branch writes; has_tex is written only inside
\* "if material.node_tree".
MaterialBytes(kind) ==
    IF kind = "none"
    THEN Fmt32s + FmtB + FmtB + FmtB + 4 * FmtB + 3 * FmtB + FmtB
    ELSE Fmt32s + (IF kind \in {"tree", "tree_tex"} THEN FmtB ELSE 0)
            + FmtB + FmtB + 4 * FmtB + 3 * FmtB + FmtB
\* 'eeeeeeBBBBeeBBBB'
VertexBytes == 6 * FmtE + 4 * FmtB + 2 * FmtE + 4 * FmtB

\* -------------------------------------------------------------------- state
VARIABLES
    opts,           \* the operator properties handed to write_dbmesh
    scene,          \* bpy.data.objects and scene.render.fps (read only)
    frame_current,  \* bpy.context.scene.frame_current
    is_solo,        \* track.is_solo of the first armature's NLA tracks
    pc,             \* position in write_dbmesh / write_dbanim
    result,         \* "none", the returned {'FINISHED'}, or the exception raised
    reports,        \* levels passed to self.report, in order
    f,              \* the mesh file
    bonemap,        \* bone name -> bone palette id
    dba,            \* the animation files written so far
    t,              \* index of the NLA track being visited
    begin, end, cur_frame, total_frames, i,   \* write_dbanim locals
    pos_tracks, rot_tracks, scale_tracks,      \* write_dbanim locals
    m, v, k,        \* mesh, vertex (loop) and deform entry being visited
    bweight, bidx   \* the two retained weights and bone indices

animvars == <<begin, end, cur_frame, total_frames, i, pos_tracks, rot_tracks, scale_tracks>>
skinvars == <<v, k, bweight, bidx>>
vars == <<opts, scene, frame_current, is_solo, pc, result, reports, f, bonemap,
          dba, t, animvars, m, skinvars>>

\* ------------------------------------------------------------------- scenes
Strip(s, e) == [frame_start |-> s, frame_end |-> e]
Track(name, mute, strips, sampler) ==
    [name |-> name, mute |-> mute, strips |-> strips, sampler |-> sampler]
\* An armature object: len(data.bones), animation_data (None or not) and
\* animation_data.nla_tracks.  Bone names are 1..nbones, in data.bones order.
Armature(n, has_anim, tracks) ==
    [nbones |-> n, animation_data |-> has_anim, nla_tracks |-> tracks]
Item(g, w) == [group |-> g, weight |-> w]
\* A mesh object after triangulation: the kind of its first material slot,
\* whether a deform layer is active, its faces, and per loop (3 per face)
\* the deform entries of its vertex, in items() order.  Vertex group names
\* are numbers too: group g is bone g when the armature has such a bone.
Mesh(kind, deform, nfaces, verts) ==
    [material |-> kind, has_deform |-> deform, nfaces |-> nfaces, verts |-> verts]

Options(skin, tracks, skip, rate, pe, re, se) ==
    [export_skinning |-> skin, export_tracks |-> tracks, skip_muted_tracks |-> skip,
     resample_framerate |-> rate, position_error |-> pe, rotation_error |-> re,
     scale_error |-> se]
Scene(fps, armatures, meshes) == [fps |-> fps, armatures |-> armatures, meshes |-> meshes]

Ramp == [p \in FramePhases |-> p]

\* Deform entries of one vertex: at most MaxItems entries over distinct groups.
ItemSeqs ==
    UNION {{s \in [1..n -> {Item(g, w) : g \in Groups, w \in WeightSet}] :
               \A a, b \in 1..n : a # b => s[a].group # s[b].group} : n \in 0..MaxItems}

\* Scenes that vary the clip: one armature of two bones with one NLA track
\* of one strip, skinning on, no mesh.
ClipStrips ==
    {st \in {Strip(s, e) : s \in {-1, 0, 1}, e \in 0..MaxEnd} : st.frame_start < st.frame_end}
ClipScenes ==
    {Scene(fps, <<Armature(2, TRUE, <<Track("Walk", FALSE, <<st>>, smp)>>)>>, <<>>) :
        fps \in 1..MaxFps, st \in ClipStrips, smp \in Samplers}
ClipOptions ==
    {Options(TRUE, TRUE, TRUE, rate, pe, re, se) :
        rate \in 1..MaxRate, pe \in ErrSet, re \in ErrSet, se \in ErrSet}

\* The clip of one second at 30 frames per second, resampled at 15.
SecondScenes ==
    {Scene(30, <<Armature(2, TRUE, <<Track("Walk", FALSE, <<Strip(0, 30)>>, smp)>>)>>, <<>>) :
        smp \in Samplers}
SecondOptions ==
    {Options(TRUE, TRUE, TRUE, 15, pe, re, se) : pe \in ErrSet, re \in ErrSet, se \in ErrSet}

\* Scenes that vary the deform entries of one vertex: one armature of two
\* or three bones, one mesh of one face.
SkinScenes ==
    {Scene(1, <<Armature(n, FALSE, <<>>)>>, <<Mesh("none", TRUE, 1, <<s, <<>>, <<>>>>)>>) :
        n \in {2, 3}, s \in ItemSeqs}
SkinOptions == {Options(TRUE, FALSE, TRUE, 1, 0, 0, 0)}

\* Scenes that vary the structure: the armatures, their NLA tracks, the
\* meshes and their materials, under every combination of the three flags.
SomeTracks ==
    {<<>>,
     <<Track("Walk", FALSE, <<Strip(0, 2)>>, Ramp)>>,
     <<Track("Idle", TRUE, <<Strip(0, 1)>>, Ramp),
       Track("[Action Stash]", FALSE, <<Strip(0, 1)>>, Ramp),
       Track("Run", FALSE, <<>>, Ramp)>>}
SomeArmatures ==
    {Armature(n, FALSE, <<>>) : n \in {1, 2, MaxBones + 1}}
        \cup {Armature(n, TRUE, tr) : n \in {1, 2, MaxBones + 1}, tr \in SomeTracks}
SomeVerts ==
    {<<>>, <<Item(1, <<1, 2>>)>>, <<Item(1, <<1, 2>>), Item(2, <<3, 10>>)>>,
     <<Item(3, <<1, 5>>)>>}
SomeMeshes ==
    {Mesh(kind, FALSE, n, [j \in 1..(3 * n) |-> <<>>]) : kind \in MaterialKinds, n \in {0, 1}}
        \cup {Mesh(kind, TRUE, 1, <<s, s, <<>>>>) : kind \in MaterialKinds, s \in SomeVerts}
StructScenes ==
    {Scene(1, arms, meshes) :
        arms \in {<<>>} \cup {<<a>> : a \in SomeArmatures}
                    \cup {<<Armature(2, TRUE, <<>>), Armature(1, FALSE, <<>>)>>},
        meshes \in {<<>>} \cup {<<x>> : x \in SomeMeshes}
                    \cup {<<Mesh("tree", TRUE, 1, <<<<Item(2, <<1, 2>>)>>, <<>>, <<>>>>),
                            Mesh("none", FALSE, 1, <<<<>>, <<>>, <<>>>>)>>}}
StructOptions ==
    {Options(skin, tracks, skip, 1, 1, 1, 1) : skin \in BOOLEAN, tracks \in BOOLEAN,
                                              skip \in BOOLEAN}

\* The tracks of the armature the export uses (the first), if any.
Armatures == scene.armatures
Meshes == scene.meshes
NlaTracks == IF Len(Armatures) > 0 THEN Armatures[1].nla_tracks ELSE <<>>
Bones == IF Len(Armatures) > 0 THEN 1..Armatures[1].nbones ELSE {}

Init ==
    /\ \/ opts \in ClipOptions /\ scene \in ClipScenes /\ frame_current = 1
       \/ opts \in SecondOptions /\ scene \in SecondScenes /\ frame_current = 1
       \/ opts \in SkinOptions /\ scene \in SkinScenes /\ frame_current = 1
       \/ opts \in StructOptions /\ scene \in StructScenes /\ frame_current = 10
    /\ is_solo = [n \in 1..Len(NlaTracks) |-> FALSE]
    /\ pc = "start"
    /\ result = "none"
    /\ reports = <<>>
    /\ f = [open |-> FALSE, closed |-> FALSE, chunks |-> <<>>]
    /\ bonemap = <<>>
    /\ dba = <<>>
    /\ t = 0
    /\ begin = 0 /\ end = 0 /\ cur_frame = 0 /\ total_frames = 0 /\ i = 0
    /\ pos_tracks = <<>> /\ rot_tracks = <<>> /\ scale_tracks = <<>>
    /\ m = 0 /\ v = 0 /\ k = 0
    /\ bweight = <<<<0, 1>>, <<0, 1>>>>
    /\ bidx = <<0, 0>>

\* ------------------------------------------------------------- write_dbmesh
\* Gather the meshes and armatures, warn about a second armature, open the
\* file and write the magic and the version.
Gather ==
    /\ pc = "start"
    /\ reports' = (IF Len(Armatures) > 1 THEN <<"WARN">> ELSE <<>>) \o <<"INFO">>
    /\ f' = [f EXCEPT !.open = TRUE]
    /\ pc' = "skel"
    /\ UNCHANGED <<opts, scene, frame_current, is_solo, result, bonemap, dba, t,
                   animvars, m, skinvars>>

SkelChunk(n) ==
    [tag |-> "SKEL", size |-> BoneBytes * n,
     written |-> n * (16 * FmtF + 16 * FmtF + FmtB + FmtB), verts |-> <<>>]

\* The skeleton: skipped with an error report above MaxBones bones, else the
\* SKEL chunk is written and every bone name gets its palette id.
WriteSkeleton ==
    /\ pc = "skel"
    /\ IF opts.export_skinning /\ Len(Armatures) > 0
       THEN LET n == Armatures[1].nbones
            IN  IF n > MaxBones
                THEN /\ reports' = Append(reports, "ERROR")
                     /\ UNCHANGED <<f, bonemap>>
                ELSE /\ f' = [f EXCEPT !.chunks = Append(@, SkelChunk(n))]
                     /\ bonemap' = [b \in 1..n |-> b - 1]
                     /\ UNCHANGED reports
       ELSE UNCHANGED <<f, bonemap, reports>>
    /\ pc' = "tracks"
    /\ UNCHANGED <<opts, scene, frame_current, is_solo, result, dba, t, animvars, m,
                   skinvars>>

\* "if export_tracks and len(armatures) > 0", "if armature.animation_data",
\* and the loop that clears is_solo on every track.
BeginTracks ==
    /\ pc = "tracks"
    /\ IF opts.export_tracks /\ Len(Armatures) > 0 /\ Armatures[1].animation_data
       THEN /\ is_solo' = [n \in DOMAIN is_solo |-> FALSE]
            /\ t' = 1
            /\ pc' = "track"
            /\ UNCHANGED m
       ELSE /\ pc' = "mesh"
            /\ m' = 1
            /\ UNCHANGED <<is_solo, t>>
    /\ UNCHANGED <<opts, scene, frame_current, result, reports, f, bonemap, dba,
                   animvars, skinvars>>

Skipped(track) ==
    (track.mute /\ opts.skip_muted_tracks) \/ track.name = "[Action Stash]"

\* The two "continue" branches of the track loop.
SkipTrack ==
    /\ pc = "track"
    /\ t <= Len(NlaTracks)
    /\ Skipped(NlaTracks[t])
    /\ t' = t + 1
    /\ UNCHANGED <<opts, scene, frame_current, is_solo, pc, result, reports, f,
                   bonemap, dba, animvars, m, skinvars>>

\* The track loop is exhausted.
EndTracks ==
    /\ pc = "track"
    /\ t > Len(NlaTracks)
    /\ pc' = "mesh"
    /\ m' = 1
    /\ UNCHANGED <<opts, scene, frame_current, is_solo, result, reports, f, bonemap,
                   dba, t, animvars, skinvars>>

\* ------------------------------------------------------------- write_dbanim
\* track.is_solo = True and the call: the file is opened, the frame range,
\* the current frame and the number of samples are taken, the tracks start
\* empty.
EnterAnim ==
    /\ pc = "track"
    /\ t <= Len(NlaTracks)
    /\ ~Skipped(NlaTracks[t])
    /\ is_solo' = [is_solo EXCEPT ![t] = TRUE]
    /\ reports' = Append(reports, "INFO")
    /\ dba' = Append(dba, [name |-> NlaTracks[t].name, closed |-> FALSE, chunks |-> <<>>])
    /\ LET range == FrameRange(NlaTracks[t].strips, 0, 0)
       IN  /\ begin' = range[1]
           /\ end' = range[2]
           /\ total_frames' =
                 TotalFrames(range[2] - range[1], scene.fps, opts.resample_framerate)
    /\ cur_frame' = frame_current
    /\ pos_tracks' = [b \in Bones |-> <<>>]
    /\ rot_tracks' = [b \in Bones |-> <<>>]
    /\ scale_tracks' = [b \in Bones |-> <<>>]
    /\ i' = 0
    /\ pc' = "sample"
    /\ UNCHANGED <<opts, scene, frame_current, result, f, bonemap, t, m, skinvars>>

\* frame_set(frame) and the three appends for every pose bone.
TakeSample(frame) ==
    LET time == TimeOf(frame, scene.fps)
        pose(b) == get_bone_pose(NlaTracks[t], b, frame)
    IN  /\ frame_current' = frame
        /\ pos_tracks' = [b \in Bones |->
              append_track_vec3(pos_tracks[b], time, pose(b).loc, opts.position_error)]
        /\ rot_tracks' = [b \in Bones |->
              append_track_quat(rot_tracks[b], time, pose(b).rot, opts.rotation_error)]
        /\ scale_tracks' = [b \in Bones |->
              append_track_vec3(scale_tracks[b], time, pose(b).scale, opts.scale_error)]

\* One pass of "for i in range(total_frames)".
SampleFrame ==
    /\ pc = "sample"
    /\ i < total_frames
    /\ TakeSample(SampleFrameOf(begin, i, scene.fps, opts.resample_framerate))
    /\ i' = i + 1
    /\ UNCHANGED <<opts, scene, is_solo, pc, result, reports, f, bonemap, dba, t,
                   begin, end, cur_frame, total_frames, m, skinvars>>

\* "ensure last frame is exported for proper looping": one more sample at
\* end when the last sampled frame is before it.
LoopSafety ==
    /\ pc = "sample"
    /\ i = total_frames
    /\ IF SampleFrameOf(begin, total_frames - 1, scene.fps, opts.resample_framerate) < end
       THEN TakeSample(end)
       ELSE UNCHANGED <<frame_current, pos_tracks, rot_tracks, scale_tracks>>
    /\ pc' = "write"
    /\ UNCHANGED <<opts, scene, is_solo, result, reports, f, bonemap, dba, t,
                   begin, end, cur_frame, total_frames, i, m, skinvars>>

Vec3Chunk(boneid, binding, track) ==
    [tag |-> "VEC3", size |-> 12 + (16 * Len(track)), boneid |-> boneid,
     binding |-> binding, keys |-> track]
QuatChunk(boneid, track) ==
    [tag |-> "QUAT", size |-> 12 + (20 * Len(track)), boneid |-> boneid,
     binding |-> 1, keys |-> track]

\* The chunks of bones lo..hi of one track map, in bone order.
RECURSIVE TrackChunks(_, _, _, _)
TrackChunks(lo, hi, tracks, binding) ==
    IF lo > hi THEN <<>>
    ELSE <<IF binding = 1 THEN QuatChunk(bonemap[lo], tracks[lo])
           ELSE Vec3Chunk(bonemap[lo], binding, tracks[lo])>>
            \o TrackChunks(lo + 1, hi, tracks, binding)

\* The bones of the armature whose names the bone map lacks.
MissingBones == {b \in Bones : b \notin DOMAIN bonemap}
FirstMissing == CHOOSE b \in MissingBones : \A c \in MissingBones : b <= c

\* The position, rotation and scale chunks, then frame_set(cur_frame),
\* f.close() and, back in the caller, track.is_solo = False.  bonemap[bone_name]
\* raises KeyError at the first bone the map lacks: nothing after it runs.
WriteTracks ==
    /\ pc = "write"
    /\ LET n == Cardinality(Bones)
       IN  IF MissingBones = {}
           THEN /\ dba' = [dba EXCEPT ![Len(dba)] =
                              [@ EXCEPT !.closed = TRUE,
                                        !.chunks = TrackChunks(1, n, pos_tracks, 0)
                                                     \o TrackChunks(1, n, rot_tracks, 1)
                                                     \o TrackChunks(1, n, scale_tracks, 2)]]
                /\ frame_current' = cur_frame
                /\ is_solo' = [is_solo EXCEPT ![t] = FALSE]
                /\ t' = t + 1
                /\ pc' = "track"
                /\ UNCHANGED result
           ELSE /\ dba' = [dba EXCEPT ![Len(dba)].chunks =
                              TrackChunks(1, FirstMissing - 1, pos_tracks, 0)]
                /\ pc' = "error"
                /\ result' = "KeyError"
                /\ UNCHANGED <<frame_current, is_solo, t>>
    /\ UNCHANGED <<opts, scene, reports, f, bonemap, animvars, m, skinvars>>

\* ------------------------------------------------------------ mesh chunks
\* The MESH tag, the size field, the name, the transform, the material
\* summary and the triangle count.
MeshHeader ==
    /\ pc = "mesh"
    /\ m <= Len(Meshes)
    /\ LET mesh == Meshes[m]
       IN  /\ f' = [f EXCEPT !.chunks = Append(@,
                       [tag |-> "MESH", size |-> MeshSizeField(mesh.nfaces),
                        written |-> Fmt32s + TransformBytes
                                      + MaterialBytes(mesh.material) + FmtH,
                        verts |-> <<>>])]
           /\ IF mesh.nfaces = 0
              THEN m' = m + 1 /\ UNCHANGED <<pc, v>>
              ELSE v' = 1 /\ pc' = "vert" /\ UNCHANGED m
    /\ UNCHANGED <<opts, scene, frame_current, is_solo, result, reports, bonemap, dba,
                   t, animvars, k, bweight, bidx>>

\* The deform entries of the vertex being written: vert.vert[deform_layer].items().
CurItems == Meshes[m].verts[v]

\* The start of one loop of a face: bweight = [0, 0], bidx = [0, 0].
BeginVertex ==
    /\ pc = "vert"
    /\ bweight' = <<<<0, 1>>, <<0, 1>>>>
    /\ bidx' = <<0, 0>>
    /\ k' = 0
    /\ pc' = "scan"
    /\ UNCHANGED <<opts, scene, frame_current, is_solo, result, reports, f, bonemap,
                   dba, t, animvars, m, v>>

\* One deform entry: its group's name is looked up in the bone map (KeyError
\* when the map lacks it), then the two slots are tried in order.
ScanGroup ==
    /\ pc = "scan"
    /\ Meshes[m].has_deform
    /\ k < Len(CurItems)
    /\ LET item == CurItems[k + 1]
       IN  IF item.group \in DOMAIN bonemap
           THEN LET r == FirstFit(bweight, bidx, item.weight, bonemap[item.group])
                IN  /\ bweight' = r.bweight
                    /\ bidx' = r.bidx
                    /\ k' = k + 1
                    /\ UNCHANGED <<pc, result>>
           ELSE /\ pc' = "error"
                /\ result' = "KeyError"
                /\ UNCHANGED <<k, bweight, bidx>>
    /\ UNCHANGED <<opts, scene, frame_current, is_solo, reports, f, bonemap, dba, t,
                   animvars, m, v>>

\* The renormalisation and the packed vertex, then the next loop, face or mesh.
WriteVertex ==
    /\ pc = "scan"
    /\ ~Meshes[m].has_deform \/ k = Len(CurItems)
    /\ bweight' = Renormalize(bweight)
    /\ f' = [f EXCEPT !.chunks[Len(f.chunks)] =
                [@ EXCEPT !.written = @ + VertexBytes,
                          !.verts = Append(@,
                              [bweight |-> <<PackUnorm8(bweight'[1]), PackUnorm8(bweight'[2])>>,
                               bidx |-> bidx])]]
    /\ IF v < 3 * Meshes[m].nfaces
       THEN v' = v + 1 /\ pc' = "vert" /\ UNCHANGED m
       ELSE m' = m + 1 /\ pc' = "mesh" /\ UNCHANGED v
    /\ UNCHANGED <<opts, scene, frame_current, is_solo, result, reports, bonemap, dba,
                   t, animvars, k, bidx>>

\* f.close() and return {'FINISHED'}.
Finish ==
    /\ pc = "mesh"
    /\ m > Len(Meshes)
    /\ f' = [f EXCEPT !.closed = TRUE]
    /\ result' = "FINISHED"
    /\ pc' = "done"
    /\ UNCHANGED <<opts, scene, frame_current, is_solo, reports, bonemap, dba, t,
                   animvars, m, skinvars>>

Next ==
    \/ Gather
    \/ WriteSkeleton
    \/ BeginTracks
    \/ SkipTrack
    \/ EndTracks
    \/ EnterAnim
    \/ SampleFrame
    \/ LoopSafety
    \/ WriteTracks
    \/ MeshHeader
    \/ BeginVertex
    \/ ScanGroup
    \/ WriteVertex
    \/ Finish

Spec == Init /\ [][Next]_vars

\* ================================================================== claims
InAnim == pc \in {"sample", "write"}
\* The track map of a binding id: 0 position, 1 rotation, 2 scale.
Bindings == {0, 1, 2}
TracksOf(c) == IF c = 0 THEN pos_tracks ELSE IF c = 1 THEN rot_tracks ELSE scale_tracks
LastKey(track) == track[Len(track)]
MeshChunks == {j \in 1..Len(f.chunks) : f.chunks[j].tag = "MESH"}

\* C1: with export_skinning on and an armature of more than 256 bones, no
\* SKEL chunk is emitted, the bone map stays empty, and every mesh is still
\* written: the vertex loop raises nothing, and every vertex written has bone
\* indices (0, 0) and bone weights (0, 0).
C1_OversizedSkeletonWritesUnskinned ==
    (opts.export_skinning /\ Len(Armatures) > 0 /\ Armatures[1].nbones > MaxBones
        /\ pc \notin {"start", "skel"})
    => /\ \A j \in 1..Len(f.chunks) : f.chunks[j].tag # "SKEL"
       /\ bonemap = <<>>
       /\ ~(pc = "error" /\ m >= 1)
       /\ \A j \in MeshChunks : \A n \in 1..Len(f.chunks[j].verts) :
             f.chunks[j].verts[n] = [bweight |-> <<0, 0>>, bidx |-> <<0, 0>>]

\* C2: when (end - begin) is not an exact multiple of the resample step
\* fps / resample_framerate, the last key of every position, rotation and
\* scale track has time end / fps once sampling is over.
C2_LastKeyAtEnd ==
    (pc = "write" /\ ((end - begin) * opts.resample_framerate) % scene.fps # 0)
    => \A c \in Bindings : \A b \in Bones :
          /\ Len(TracksOf(c)[b]) > 0
          /\ REq(LastKey(TracksOf(c)[b]).time, TimeOf(end, scene.fps))

\* C3: for every mesh chunk that has been written in full, the size field
\* after the MESH tag equals the number of payload bytes written for it.
C3_MeshSizeMatchesPayload ==
    \A j \in MeshChunks :
        (j < Len(f.chunks) \/ pc \in {"mesh", "done"})
        => f.chunks[j].size = f.chunks[j].written

\* C4: a vertex with the non-zero groups {A: 0.5, B: 0.3, C: 0.2}, of which
\* only A and B are bones, is written in every scan order, with the retained
\* pair (A, 0.5), (B, 0.3) renormalised to (0.625, 0.375).
C4_UnmappedGroupScenario ==
    LET scenario ==
            /\ Len(Meshes) = 1 /\ Meshes[1].has_deform /\ Meshes[1].nfaces = 1
            /\ {Meshes[1].verts[1][n] : n \in 1..Len(Meshes[1].verts[1])}
                  = {Item(1, <<1, 2>>), Item(2, <<3, 10>>), Item(3, <<1, 5>>)}
            /\ Len(Armatures) = 1 /\ Armatures[1].nbones = 2
            /\ opts.export_skinning
    IN  scenario
        => /\ pc # "error"
           /\ (m = 1 /\ v = 2 /\ pc = "vert")
              => /\ bidx = <<0, 1>>
                 /\ REq(bweight[1], <<625, 1000>>)
                 /\ REq(bweight[2], <<375, 1000>>)

\* C5: whenever write_dbanim has been left, by returning or by an exception,
\* the scene's current frame is the frame saved on entry.
C5_FrameRestoredOnExit ==
    (Len(dba) > 0 /\ ~InAnim) => frame_current = cur_frame

\* C6: with file operations succeeding, the export runs to completion for
\* every scene and every combination of the flags: no exception is raised.
C6_ExportNeverAborts ==
    pc # "error" /\ result \in {"none", "FINISHED"}

\* The frame of the sample the next step of the sampling loop takes, if it
\* takes one.
TakesSample ==
    /\ pc = "sample"
    /\ i < total_frames
         \/ SampleFrameOf(begin, total_frames - 1, scene.fps, opts.resample_framerate) < end
NextFrame ==
    IF i < total_frames
    THEN SampleFrameOf(begin, i, scene.fps, opts.resample_framerate)
    ELSE end
NextPose(b) == get_bone_pose(NlaTracks[t], b, NextFrame)

\* C7 as stated: every sample a track discards differs from the track's
\* last key by strictly less than the tolerance.
C7_DiscardedStrictlyWithin ==
    [][TakesSample =>
         \A b \in Bones :
            /\ pos_tracks'[b] = pos_tracks[b]
               => Dist2(LastKey(pos_tracks[b]).value, NextPose(b).loc)
                     < opts.position_error * opts.position_error
            /\ rot_tracks'[b] = rot_tracks[b]
               => RotationDifference(LastKey(rot_tracks[b]).value, NextPose(b).rot)
                     < opts.rotation_error
            /\ scale_tracks'[b] = scale_tracks[b]
               => Dist2(LastKey(scale_tracks[b]).value, NextPose(b).scale)
                     < opts.scale_error * opts.scale_error]_vars

\* C7 amended: every sample a track discards differs from the track's last
\* key by at most the tolerance (a sample at exactly the tolerance is
\* discarded).
C7_DiscardedWithin ==
    [][TakesSample =>
         \A b \in Bones :
            /\ pos_tracks'[b] = pos_tracks[b]
               => Dist2(LastKey(pos_tracks[b]).value, NextPose(b).loc)
                     <= opts.position_error * opts.position_error
            /\ rot_tracks'[b] = rot_tracks[b]
               => RotationDifference(LastKey(rot_tracks[b]).value, NextPose(b).rot)
                     <= opts.rotation_error
            /\ scale_tracks'[b] = scale_tracks[b]
               => Dist2(LastKey(scale_tracks[b]).value, NextPose(b).scale)
                     <= opts.scale_error * opts.scale_error]_vars

\* A sample has just been discarded by a position track and by a rotation
\* track at exactly the (non-zero) tolerance.
C7_Witness ==
    /\ pc = "sample" /\ i >= 2
    /\ opts.position_error > 0 /\ opts.rotation_error > 0
    /\ \E b \in Bones :
          /\ RLess(LastKey(pos_tracks[b]).time, TimeOf(frame_current, scene.fps))
          /\ Dist2(LastKey(pos_tracks[b]).value,
                   get_bone_pose(NlaTracks[t], b, frame_current).loc)
                = opts.position_error * opts.position_error
    /\ \E b \in Bones :
          /\ RLess(LastKey(rot_tracks[b]).time, TimeOf(frame_current, scene.fps))
          /\ RotationDifference(LastKey(rot_tracks[b]).value,
                                get_bone_pose(NlaTracks[t], b, frame_current).rot)
                = opts.rotation_error

\* The clip of one second at 30 frames per second resampled at 15, on a
\* skeleton of two bones.
OneSecondClip ==
    /\ InAnim
    /\ scene.fps = 30 /\ opts.resample_framerate = 15
    /\ end - begin = 30
    /\ Cardinality(Bones) = 2

\* C8 as stated: the main sampling loop takes totalSamples = 2 samples.
C8_TwoSamples ==
    OneSecondClip => total_frames = 2

\* C8 amended: the main sampling loop takes 15 samples (frames 0, 2, ..., 28)
\* and the loop-safety sample at frame 30 is always taken, so every track
\* sees 16 samples and holds at most 16 keys.
C8_FifteenSamples ==
    OneSecondClip
    => /\ total_frames = 15
       /\ i <= 15
       /\ pc = "sample" /\ i > 0 => frame_current = begin + 2 * (i - 1)
       /\ pc = "write" => i = 15 /\ frame_current = end
       /\ \A c \in Bindings : \A b \in Bones : Len(TracksOf(c)[b]) <= 16

\* The one-second clip has been sampled and a track kept all 16 samples.
C8_Witness ==
    /\ OneSecondClip
    /\ pc = "write"
    /\ \E b \in Bones : Len(pos_tracks[b]) = 16

\* C9: within every position, rotation and scale track, key times are
\* strictly increasing, during and after sampling.
C9_TimesStrictlyIncreasing ==
    \A c \in Bindings : \A b \in DOMAIN TracksOf(c) :
        \A j \in 1..(Len(TracksOf(c)[b]) - 1) :
            RLess(TracksOf(c)[b][j].time, TracksOf(c)[b][j + 1].time)

\* Sampling above the native rate is over: consecutive samples fell on the
\* same frame, the loop-safety sample was taken, and a track holds three or
\* more keys, the last one at end.
C9_Witness ==
    /\ pc = "write"
    /\ opts.resample_framerate > scene.fps
    /\ i > end - begin + 1
    /\ frame_current = end
    /\ \E b \in Bones :
          /\ Len(pos_tracks[b]) >= 3
          /\ REq(LastKey(pos_tracks[b]).time, TimeOf(end, scene.fps))

\* The weights of the deform entries scanned so far for the current vertex.
Scanned == {CurItems[j].weight : j \in 1..k}

====
